---- MODULE Spec2Model ----
(***************************************************************************)
(* Model of nuttx_env/kconfig.py: the marker / anchor based section merge  *)
(* of KConfig.add_board and the scans of KConfigUserBoard.                 *)
(*                                                                         *)
(* A file is a sequence of lines.  A line is a record                      *)
(*   [indent |-> number of leading blanks, text |-> the trimmed content];  *)
(* the line terminator is part of every line and is not modelled apart.    *)
(* Line numbers are Python indexes (0-based); TLA+ sequences are 1-based,  *)
(* so index i of the code is element i + 1 of the sequence.                *)
(***************************************************************************)
EXTENDS Integers, Sequences, FiniteSets, TLC

VARIABLES
    destFile,    \* content of the destination Kconfig on disk (KConfig._kconfig_path)
    destExists,  \* whether the destination file exists
    srcFile,     \* content of the user boards Kconfig on disk (vars.USER_BOARDS_DIR/Kconfig)
    srcExists,   \* whether the user boards Kconfig exists
    lines,       \* the local list `lines` of add_board
    pc,          \* position inside add_board (or the helper called, in SpecScan)
    err,         \* exception that left add_board: "" | "ValueError" | "FileNotFoundError"
    branch,      \* per kind, the branch add_board took: "none" | "replace" | "insert"
    ret,         \* value returned by the helper called last (SpecScan)
    arg,         \* fragment handed to the helper called last (SpecScan)
    before,      \* the list `lines` as it was when the last `# Process` block began
    second,      \* TRUE once add_board has been invoked a second time
    saved        \* every content the destination file has had, oldest first

vars == <<destFile, destExists, srcFile, srcExists, lines, pc, err, branch,
          ret, arg, before, second, saved>>

----------------------------------------------------------------------------
(* Bounds of the model *)

\* longest document handed to a single helper in SpecScan
MaxLen == 5
\* most body lines between two markers / most filler lines of a region in Spec
MaxBody == 1

----------------------------------------------------------------------------
(* Lines and literals *)

Kinds == {"config", "default", "options"}

Ln(t) == [indent |-> 0, text |-> t]
Indented(t) == [indent |-> 1, text |-> t]

\* str.strip() of a line: leading and trailing white space (and the line
\* terminator) are dropped, the content stays.
Strip(line) == line.text

StartMarker(k) ==
    CASE k = "config"  -> "# ---- START USER BOARD CONFIG ----"
      [] k = "default" -> "# ---- START USER BOARD DEFAULT ----"
      [] k = "options" -> "# ---- START USER BOARD OPTIONS ----"

EndMarker(k) ==
    CASE k = "config"  -> "# ---- END USER BOARD CONFIG ----"
      [] k = "default" -> "# ---- END USER BOARD DEFAULT ----"
      [] k = "options" -> "# ---- END USER BOARD OPTIONS ----"

AnchorStart(k) ==
    CASE k = "config"  -> "choice"
      [] k = "default" -> "config ARCH_BOARD"
      [] k = "options" -> "comment \"Board-Specific Options\""

AnchorEnd(k) ==
    CASE k = "config"  -> "endchoice"
      [] k = "default" -> "comment \"Common Board Options\""
      [] k = "options" -> "comment \"Board-Common Options\""

\* Python's None for an `int | None` local: the empty tuple; an int n is <<n>>.
None == <<>>
Some(n) == <<n>>

----------------------------------------------------------------------------
(* KConfigUserBoard: the two scans over a file *)

\* The loop of _get_section_lines from element i on; in_section and
\* section_lines are the loop's locals.
RECURSIVE SectionLinesLoop(_, _, _, _, _, _, _)
SectionLinesLoop(doc, start_marker, end_marker, insert_marker, i, in_section, section_lines) ==
    IF i > Len(doc) THEN section_lines
    ELSE IF Strip(doc[i]) = start_marker
         THEN SectionLinesLoop(doc, start_marker, end_marker, insert_marker, i + 1, TRUE,
                               IF insert_marker THEN Append(section_lines, doc[i])
                                                ELSE section_lines)
    ELSE IF Strip(doc[i]) = end_marker
         THEN (IF insert_marker THEN Append(section_lines, doc[i]) ELSE section_lines)
    ELSE SectionLinesLoop(doc, start_marker, end_marker, insert_marker, i + 1, in_section,
                          IF in_section THEN Append(section_lines, doc[i])
                                        ELSE section_lines)

\* _get_section_lines on an existing file: never raises ValueError.
GetSectionLines(doc, start_marker, end_marker, insert_marker) ==
    SectionLinesLoop(doc, start_marker, end_marker, insert_marker, 1, FALSE, <<>>)

\* The loop of _get_section_place from element i on; returns the two locals
\* lineno_start and lineno_end as the loop leaves them.
RECURSIVE SectionPlaceLoop(_, _, _, _, _)
SectionPlaceLoop(doc, start_marker, end_marker, i, lineno_start) ==
    IF i > Len(doc) THEN [lineno_start |-> lineno_start, lineno_end |-> None]
    ELSE IF Strip(doc[i]) = start_marker
         THEN SectionPlaceLoop(doc, start_marker, end_marker, i + 1, Some(i - 1))
    ELSE IF Strip(doc[i]) = end_marker
         THEN [lineno_start |-> lineno_start, lineno_end |-> Some(i - 1)]
    ELSE SectionPlaceLoop(doc, start_marker, end_marker, i + 1, lineno_start)

\* _get_section_place on an existing file:
\* [err |-> "ValueError"] or [err |-> "", s |-> lineno_start, e |-> lineno_end].
GetSectionPlace(doc, start_marker, end_marker) ==
    LET r == SectionPlaceLoop(doc, start_marker, end_marker, 1, None)
    IN  IF r.lineno_start = None \/ r.lineno_end = None
        THEN [err |-> "ValueError", s |-> 0, e |-> 0]
        ELSE [err |-> "", s |-> r.lineno_start[1], e |-> r.lineno_end[1]]

----------------------------------------------------------------------------
(* KConfig: anchor scan and the two slice assignments *)

\* LastLineLoop with `lineno = idx` in place of `lineno = idx - 1`.
RECURSIVE LastLineLoopAtEndLiteral(_, _, _, _)
LastLineLoopAtEndLiteral(doc, marker_start, marker_end, i) ==
    IF i > Len(doc) THEN None
    ELSE IF Strip(doc[i]) = marker_start
         THEN LastLineLoopAtEndLiteral(doc, marker_start, marker_end, i + 1)
    ELSE IF Strip(doc[i]) = marker_end
         THEN Some(i - 1)
    ELSE LastLineLoopAtEndLiteral(doc, marker_start, marker_end, i + 1)

\* The loop of _get_last_line_number_in_section from element i on; returns
\* the local lineno.  The local in_section is written but never decides
\* anything, so it does not appear in the result.
RECURSIVE LastLineLoop(_, _, _, _)
LastLineLoop(doc, marker_start, marker_end, i) ==
    IF i > Len(doc) THEN None
    ELSE IF Strip(doc[i]) = marker_start
         THEN LastLineLoop(doc, marker_start, marker_end, i + 1)
    ELSE IF Strip(doc[i]) = marker_end
         THEN Some((i - 1) - 1)
    ELSE LastLineLoop(doc, marker_start, marker_end, i + 1)

\* _get_last_line_number_in_section:
\* [err |-> "ValueError"] or [err |-> "", lineno |-> n].
GetLastLineNumberInSection(doc, marker_start, marker_end) ==
    LET lineno == LastLineLoop(doc, marker_start, marker_end, 1)
    IN  IF lineno = None THEN [err |-> "ValueError", lineno |-> 0]
                         ELSE [err |-> "", lineno |-> lineno[1]]

\* A slice bound of Python: a negative index counts from the end, and the
\* result is clamped into 0 .. len.
SliceIndex(n, len) ==
    LET m == IF n < 0 THEN n + len ELSE n
    IN  IF m < 0 THEN 0 ELSE IF m > len THEN len ELSE m

\* lst[lo:hi] = new  (Python slice assignment, step 1)
SliceAssign(lst, lo, hi, new) ==
    LET a == SliceIndex(lo, Len(lst))
        b0 == SliceIndex(hi, Len(lst))
        b == IF b0 < a THEN a ELSE b0
    IN  SubSeq(lst, 1, a) \o new \o SubSeq(lst, b + 1, Len(lst))

\* InsertLinesAt with the fragment put after the line at lineno.
InsertLinesAfter(lst, insert_lines, lineno) ==
    SliceAssign(lst, lineno + 1, lineno + 1, insert_lines)

\* _insert_lines_at: lines[lineno:lineno] = insert_lines
InsertLinesAt(lst, insert_lines, lineno) ==
    SliceAssign(lst, lineno, lineno, insert_lines)

\* _replace_lines_at: lines[lineno_start:lineno_end + 1] = replace_lines
ReplaceLinesAt(lst, replace_lines, lineno_start, lineno_end) ==
    SliceAssign(lst, lineno_start, lineno_end + 1, replace_lines)

----------------------------------------------------------------------------
(* KConfig.add_board: one section merge (one try / except of the method) *)

\* user_board_kconfig.get_user_board_config / _default / _options
GetUserBoard(k, src) == GetSectionLines(src, StartMarker(k), EndMarker(k), TRUE)

\* nuttx_board_kconfig.get_section_place_user_board_config / _default / _options.
\* nuttx_board_kconfig is a KConfigUserBoard on the destination path: it reads
\* the file on disk, not the list `lines`.
GetSectionPlaceUserBoard(k, disk) == GetSectionPlace(disk, StartMarker(k), EndMarker(k))

\* _find_place_config_to_insert / _default_ / _options_
FindPlaceToInsert(k, lst) == GetLastLineNumberInSection(lst, AnchorStart(k), AnchorEnd(k))

\* One try / except of add_board for kind k, the fragment read from the source
\* being `fragment`: disk is the destination file, lst the list `lines`.
\* [err, lines, branch]: err = "ValueError" when the anchor lookup raised.
MergeLines(k, disk, fragment, lst) ==
    LET place == GetSectionPlaceUserBoard(k, disk)
        at == FindPlaceToInsert(k, lst)
    IN  IF place.err = ""
        THEN [err |-> "", branch |-> "replace",
              lines |-> ReplaceLinesAt(lst, fragment, place.s, place.e)]
        ELSE IF at.err = ""
        THEN [err |-> "", branch |-> "insert",
              lines |-> InsertLinesAt(lst, fragment, at.lineno)]
        ELSE [err |-> "ValueError", branch |-> "none", lines |-> lst]

\* The same with the source file: _check_kconfig_exists of the source raises
\* FileNotFoundError, which `except ValueError` does not catch, before the
\* destination list is touched and before the anchor lookup.
MergeStep(k, disk, src, src_exists, lst) ==
    IF src_exists THEN MergeLines(k, disk, GetUserBoard(k, src), lst)
    ELSE [err |-> "FileNotFoundError", branch |-> "none", lines |-> lst]

NextPc(k) ==
    CASE k = "config"  -> "default"
      [] k = "default" -> "options"
      [] k = "options" -> "save"

NoBranch == [k \in Kinds |-> "none"]

----------------------------------------------------------------------------
(* Documents the model starts from *)

\* n lines of the same content t, told apart by their indentation
Body(t, n) == [i \in 1 .. n |-> [indent |-> i, text |-> t]]

OldText(k) ==
    CASE k = "config"  -> "default \"old-board\" if ARCH_BOARD_OLD_BOARD"
      [] k = "default" -> "config ARCH_BOARD_OLD_BOARD"
      [] k = "options" -> "source \"boards/arm/stm32/old-board/Kconfig\""

NewText(k) ==
    CASE k = "config"  -> "default \"my-board\" if ARCH_BOARD_MY_BOARD"
      [] k = "default" -> "config ARCH_BOARD_MY_BOARD"
      [] k = "options" -> "source \"boards/arm/stm32/my-board/Kconfig\""

Filler == "bool \"unrelated\""

\* The part of a destination file that belongs to kind k: the anchors of the
\* kind around unrelated lines, or around a marked section.
DestRegular(k) ==
    LET S == Ln(StartMarker(k))
        E == Ln(EndMarker(k))
        A == Ln(AnchorStart(k))
        Z == Ln(AnchorEnd(k))
    IN  {<<A>> \o Body(Filler, n) \o <<Z>> : n \in 0 .. MaxBody}
        \cup {<<A, S>> \o Body(OldText(k), n) \o <<E, Z>> : n \in 0 .. MaxBody}

\* The same part of a file that lacks an anchor or a marker of the kind, or
\* has the anchors in the wrong order.
DestIrregular(k) ==
    LET S == Ln(StartMarker(k))
        E == Ln(EndMarker(k))
        A == Ln(AnchorStart(k))
        Z == Ln(AnchorEnd(k))
    IN  {<<S>> \o Body(OldText(k), n) \o <<E>> : n \in 0 .. MaxBody}
        \cup {<<Z, A>>, <<A>>, <<A, S, Z>>}

\* Destination files without markers whose `config ARCH_BOARD` part stands
\* inside the choice block instead of after it.
DestNested ==
    {<<Ln(AnchorStart("config"))>> \o d \o <<Ln(AnchorEnd("config"))>> \o o :
        d \in DestRegular("default"), o \in DestRegular("options")}

\* Destination files: at most one kind's part is irregular.
DestDocs ==
    DestNested
    \cup
    {c \o d \o o : c \in DestRegular("config") \cup DestIrregular("config"),
                   d \in DestRegular("default"), o \in DestRegular("options")}
    \cup
    {c \o d \o o : c \in DestRegular("config"),
                   d \in DestIrregular("default"), o \in DestRegular("options")}
    \cup
    {c \o d \o o : c \in DestRegular("config"),
                   d \in DestRegular("default"), o \in DestIrregular("options")}

\* The part of the user boards file that belongs to kind k: a marked section.
SrcRegular(k) ==
    {<<Ln(StartMarker(k))>> \o Body(NewText(k), n) \o <<Ln(EndMarker(k))>> :
        n \in 0 .. MaxBody}

\* The same part without the markers, or without the end marker.
SrcIrregular(k) == {<<>>, <<Ln(StartMarker(k)), Ln(NewText(k))>>}

\* User boards files: at most one kind's part is irregular.
SrcDocs ==
    {c \o d \o o : c \in SrcRegular("config") \cup SrcIrregular("config"),
                   d \in SrcRegular("default"), o \in SrcRegular("options")}
    \cup
    {c \o d \o o : c \in SrcRegular("config"),
                   d \in SrcIrregular("default"), o \in SrcRegular("options")}
    \cup
    {c \o d \o o : c \in SrcRegular("config"),
                   d \in SrcRegular("default"), o \in SrcIrregular("options")}

----------------------------------------------------------------------------
(* add_board as a state machine *)

Init ==
    /\ \/ /\ destExists = TRUE /\ srcExists = TRUE
          /\ destFile \in DestDocs /\ srcFile \in SrcDocs
       \/ /\ destExists = TRUE /\ srcExists = FALSE
          /\ destFile \in DestDocs /\ srcFile = <<>>
       \/ /\ destExists = FALSE /\ srcExists = TRUE
          /\ destFile = <<>> /\ srcFile \in SrcDocs
    /\ lines = <<>>
    /\ pc = "load"
    /\ err = ""
    /\ branch = NoBranch
    /\ ret = <<>>
    /\ arg = <<>>
    /\ before = <<>>
    /\ second = FALSE
    /\ saved = <<destFile>>

\* lines = self._load()
Load ==
    /\ pc = "load"
    /\ IF destExists
       THEN /\ lines' = destFile
            /\ pc' = "config"
            /\ err' = ""
       ELSE /\ lines' = lines
            /\ pc' = "failed"
            /\ err' = "FileNotFoundError"
    /\ UNCHANGED <<destFile, destExists, srcFile, srcExists, branch, ret, arg,
                   before, second, saved>>

\* a `# Process ...` block that would write the file as soon as it has merged
ProcessAndSave(k) ==
    /\ pc = k
    /\ \E r \in {MergeStep(k, destFile, srcFile, srcExists, lines)} :
           /\ lines' = r.lines
           /\ destFile' = r.lines
           /\ before' = lines
           /\ branch' = [branch EXCEPT ![k] = r.branch]
           /\ err' = r.err
           /\ pc' = IF r.err = "" THEN NextPc(k) ELSE "failed"
    /\ UNCHANGED <<destExists, srcFile, srcExists, ret, arg, second, saved>>

\* one `# Process ...` block of add_board
Process(k) ==
    /\ pc = k
    /\ \E r \in {MergeStep(k, destFile, srcFile, srcExists, lines)} :
           /\ lines' = r.lines
           /\ before' = lines
           /\ branch' = [branch EXCEPT ![k] = r.branch]
           /\ err' = r.err
           /\ pc' = IF r.err = "" THEN NextPc(k) ELSE "failed"
    /\ UNCHANGED <<destFile, destExists, srcFile, srcExists, ret, arg, second, saved>>

ProcessConfig == Process("config")
ProcessDefault == Process("default")
ProcessOptions == Process("options")

\* kconfig_file.writelines(lines)
Save ==
    /\ pc = "save"
    /\ destFile' = lines
    /\ saved' = Append(saved, lines)
    /\ pc' = "done"
    /\ UNCHANGED <<destExists, srcFile, srcExists, lines, err, branch, ret, arg,
                   before, second>>

\* add_board is called again, the two files as the first call left them
CallAgain ==
    /\ pc \in {"done", "failed"}
    /\ ~second
    /\ second' = TRUE
    /\ pc' = "load"
    /\ err' = ""
    /\ branch' = NoBranch
    /\ lines' = <<>>
    /\ before' = <<>>
    /\ UNCHANGED <<destFile, destExists, srcFile, srcExists, ret, arg, saved>>

Next ==
    \/ Load
    \/ ProcessConfig
    \/ ProcessDefault
    \/ ProcessOptions
    \/ Save
    \/ CallAgain

Spec == Init /\ [][Next]_vars

----------------------------------------------------------------------------
(* The helpers on their own: one call on one document *)

\* Lines a document of SpecScan is made of: the CONFIG markers (the start
\* marker also indented), the CONFIG anchors and an unrelated line.
ScanAlphabet ==
    {Ln(StartMarker("config")), Indented(StartMarker("config")),
     Ln(EndMarker("config")), Ln(AnchorStart("config")), Ln(AnchorEnd("config")),
     Ln(Filler)}

ScanDocs == UNION {[1 .. n -> ScanAlphabet] : n \in 0 .. MaxLen}

\* Fragments handed to a merge in SpecScan, with and without markers.
ScanFrags ==
    {<<>>, <<Ln(NewText("config"))>>,
     <<Ln(NewText("config")), Indented(NewText("config"))>>,
     <<Ln(StartMarker("config")), Ln(EndMarker("config"))>>,
     <<Ln(StartMarker("config")), Ln(NewText("config")), Ln(EndMarker("config"))>>}

\* A destination with `choice` at line 2, `endchoice` at line 10, no markers.
ScenarioDoc ==
    <<Ln(Filler), Ln(AnchorStart("config"))>> \o Body(Filler, 7)
        \o <<Ln(AnchorEnd("config"))>>

InitScan ==
    /\ destExists = TRUE
    /\ srcExists = TRUE
    /\ destFile \in ScanDocs \cup {ScenarioDoc}
    /\ srcFile = <<>>
    /\ lines = <<>>
    /\ pc = "call"
    /\ err = ""
    /\ branch = NoBranch
    /\ ret = <<>>
    /\ arg = <<>>
    /\ before = <<>>
    /\ second = FALSE
    /\ saved = <<>>

\* KConfigUserBoard(destFile).get_section_place_user_board_config()
CallGetSectionPlace ==
    /\ pc = "call"
    /\ pc' = "_get_section_place"
    /\ ret' = GetSectionPlaceUserBoard("config", destFile)
    /\ UNCHANGED <<destFile, destExists, srcFile, srcExists, lines, err, branch,
                   arg, before, second, saved>>

\* KConfigUserBoard(destFile).get_user_board_config()
CallGetSectionLines ==
    /\ pc = "call"
    /\ pc' = "_get_section_lines"
    /\ ret' = [err |-> "", value |-> GetUserBoard("config", destFile)]
    /\ UNCHANGED <<destFile, destExists, srcFile, srcExists, lines, err, branch,
                   arg, before, second, saved>>

\* KConfig._find_place_config_to_insert(destFile)
CallFindPlaceToInsert ==
    /\ pc = "call"
    /\ pc' = "_get_last_line_number_in_section"
    /\ ret' = FindPlaceToInsert("config", destFile)
    /\ UNCHANGED <<destFile, destExists, srcFile, srcExists, lines, err, branch,
                   arg, before, second, saved>>

\* The `# Process config` block of add_board on the freshly loaded destFile,
\* for a fragment of ScanFrags.
CallMerge ==
    /\ pc = "call"
    /\ pc' = "merge"
    /\ \E fragment \in ScanFrags :
         \E r \in {MergeLines("config", destFile, fragment, destFile)} :
           /\ arg' = fragment
           /\ lines' = r.lines
           /\ ret' = [err |-> r.err, branch |-> r.branch]
    /\ UNCHANGED <<destFile, destExists, srcFile, srcExists, err, branch, before,
                   second, saved>>

NextScan ==
    \/ CallGetSectionPlace
    \/ CallGetSectionLines
    \/ CallFindPlaceToInsert
    \/ CallMerge

SpecScan == InitScan /\ [][NextScan]_vars

----------------------------------------------------------------------------
(* board_add_to_kconfig: the caller of add_board *)

\* Longest board name drawn letter by letter
MaxName == 2

NameChars == {"m", "y", "-"}

\* A board name with which `TAB default "<name>"` is 37 characters long
LongName == [i \in 1 .. 26 |-> "m"]

\* Board names given on the command line, as sequences of characters
BoardNames == UNION {[1 .. n -> NameChars] : n \in 1 .. MaxName} \cup {LongName}

\* the str of a sequence of characters
RECURSIVE Str(_)
Str(s) == IF s = <<>> THEN "" ELSE Head(s) \o Str(Tail(s))

\* Board directories under src/nuttx/boards/<arh>/<chip>/: the directory name
\* and the parts of the path it resolves to (the directory is a link).
BoardLinks ==
    {[name |-> <<"m", "y">>,
      target |-> <<"/", "prj", "src", "my-boards", "arm", "stm32", "my">>],
     [name |-> <<"m", "-">>,
      target |-> <<"/", "prj", "src", "my-boards", "risc-v", "esp32c3", "m-">>],
     [name |-> <<"m", "y">>,
      target |-> <<"/", "my">>],
     [name |-> LongName,
      target |-> <<"/", "prj", "src", "my-boards", "arm", "stm32", Str(LongName)>>]}

\* The destination and the user boards file of this specification
BoardDest ==
    <<Ln(AnchorStart("config")), Ln(AnchorEnd("config")),
      Ln(AnchorStart("default")), Ln(AnchorEnd("default")),
      Ln(AnchorStart("options")), Ln(AnchorEnd("options"))>>

BoardSrc ==
    <<Ln(StartMarker("config")), Ln(EndMarker("config")),
      Ln(StartMarker("default")), Ln(EndMarker("default")),
      Ln(StartMarker("options")), Ln(EndMarker("options"))>>

InitBoard ==
    /\ destExists = TRUE
    /\ srcExists = TRUE
    /\ destFile = BoardDest
    /\ srcFile = BoardSrc
    /\ lines = <<>>
    /\ pc = "board_find_by_name"
    /\ err = ""
    /\ branch = NoBranch
    /\ ret = [board_path |-> None, arh_chip |-> None]
    /\ arg \in [board_name : BoardNames, boards : SUBSET BoardLinks]
    /\ before = <<>>
    /\ second = FALSE
    /\ saved = <<destFile>>

\* board_path = board_find_by_name(board_name, ...): a directory of that name,
\* in the order iterdir() gives them; ValueError when there is none
BoardFindByName ==
    /\ pc = "board_find_by_name"
    /\ \/ /\ \A d \in arg.boards : d.name # arg.board_name
          /\ pc' = "failed"
          /\ err' = "ValueError"
          /\ ret' = ret
       \/ \E d \in arg.boards :
              /\ d.name = arg.board_name
              /\ ret' = [ret EXCEPT !.board_path = Some(d)]
              /\ pc' = "board_get_arh_chip_from_path"
              /\ err' = err
    /\ UNCHANGED <<destFile, destExists, srcFile, srcExists, lines, branch, arg,
                   before, second, saved>>

\* arh_chip = board_get_arh_chip_from_path(board_path): parts[-3] and
\* parts[-2] of the resolved path, None when it has fewer than 3 parts
BoardGetArhChip ==
    /\ pc = "board_get_arh_chip_from_path"
    /\ LET parts == ret.board_path[1].target
       IN  IF Len(parts) < 3
           THEN /\ pc' = "failed"
                /\ err' = "ValueError"
                /\ ret' = ret
           ELSE /\ pc' = "add_board"
                /\ err' = err
                /\ ret' = [ret EXCEPT !.arh_chip =
                             Some(parts[Len(parts) - 2] \o "/" \o parts[Len(parts) - 1])]
    /\ UNCHANGED <<destFile, destExists, srcFile, srcExists, lines, branch, arg,
                   before, second, saved>>

\* kconfig.add_board(board_name, arh_chip): add_board(self) takes no argument,
\* the call raises TypeError before the body of add_board runs
BoardAddToKconfig ==
    /\ pc = "add_board"
    /\ pc' = "failed"
    /\ err' = "TypeError"
    /\ UNCHANGED <<destFile, destExists, srcFile, srcExists, lines, branch, ret,
                   arg, before, second, saved>>

NextBoard ==
    \/ BoardFindByName
    \/ BoardGetArhChip
    \/ BoardAddToKconfig

SpecBoard == InitBoard /\ [][NextBoard]_vars

----------------------------------------------------------------------------
(* Vocabulary of the properties *)

\* 1-based positions of the lines of doc whose trimmed content is t
Positions(doc, t) == {i \in 1 .. Len(doc) : Strip(doc[i]) = t}

Least(S) == CHOOSE m \in S : \A n \in S : m <= n

\* doc has a start marker line of kind k and, after the first one, an end marker line
HasMarkerPair(doc, k) ==
    /\ Positions(doc, StartMarker(k)) # {}
    /\ \E e \in Positions(doc, EndMarker(k)) : e > Least(Positions(doc, StartMarker(k)))

\* 0-based index of the first start marker line of a document that has the pair
FirstStart(doc, k) == Least(Positions(doc, StartMarker(k))) - 1

\* 0-based index of the first end marker line after the first start marker line
FirstEndAfterStart(doc, k) ==
    Least({e \in Positions(doc, EndMarker(k)) : e - 1 > FirstStart(doc, k)}) - 1

\* a is b with some lines left out: the lines of a are in b, in the same order
RECURSIVE IsSubseq(_, _)
IsSubseq(a, b) ==
    IF a = <<>> THEN TRUE
    ELSE IF b = <<>> THEN FALSE
    ELSE IF Head(a) = Head(b) THEN IsSubseq(Tail(a), Tail(b))
    ELSE IsSubseq(a, Tail(b))

\* 1-based positions of doc inside the section range of a kind that has one in doc
InSections(doc) ==
    {i \in 1 .. Len(doc) :
        \E k \in Kinds : /\ HasMarkerPair(doc, k)
                         /\ FirstStart(doc, k) + 1 <= i
                         /\ i <= FirstEndAfterStart(doc, k) + 1}

\* the lines of doc at the positions of P, in order
RECURSIVE Pick(_, _, _)
Pick(doc, P, i) ==
    IF i > Len(doc) THEN <<>>
    ELSE (IF i \in P THEN <<doc[i]>> ELSE <<>>) \o Pick(doc, P, i + 1)

\* the lines of doc outside every located section range
OutsideSections(doc) == Pick(doc, (1 .. Len(doc)) \ InSections(doc), 1)

----------------------------------------------------------------------------
(* C1 .. C10 *)

\* C1 (as claimed): when the three merges of one add_board run are done, every
\* line of the destination file that lies outside the marker-delimited section
\* ranges is in the list about to be saved, unchanged and in the same order.
C1_NonInterference ==
    pc = "save" => IsSubseq(OutsideSections(destFile), lines)

\* C2 (as claimed): _get_last_line_number_in_section returns an index only
\* when a start-anchor line precedes the end literal it stopped at.
C2_EndOnlyAfterStart ==
    (pc = "_get_last_line_number_in_section" /\ ret.err = "")
        => \E a \in Positions(destFile, AnchorStart("config")) : a - 1 < ret.lineno + 1

\* C3 (as claimed): _get_section_place returns the first start marker line and
\* the first end marker line after it, and raises exactly when there is no
\* such pair.
C3_FirstStartFirstEndAfter ==
    pc = "_get_section_place" =>
        IF HasMarkerPair(destFile, "config")
        THEN /\ ret.err = ""
             /\ ret.s = FirstStart(destFile, "config")
             /\ ret.e = FirstEndAfterStart(destFile, "config")
        ELSE ret.err = "ValueError"

\* C4 (as claimed): a fragment is merged for a kind only if the source file
\* has that kind's start marker and end marker; otherwise the extraction
\* raises and add_board leaves with the error.
C4_NoFragmentWithoutMarkers ==
    \A k \in Kinds :
        (srcExists /\ branch[k] # "none") =>
            /\ Positions(srcFile, StartMarker(k)) # {}
            /\ Positions(srcFile, EndMarker(k)) # {}

\* the kind whose `# Process` block ran last and did not raise
JustMerged(k) == pc = NextPc(k)

\* 1-based line of the first end literal of the CONFIG anchors in doc
EndLiteralLine(doc) == Least(Positions(doc, AnchorEnd("config")))

\* the merge of SpecScan took the anchor path and the end literal is at line >= 2
InsertedAtAnchor ==
    /\ pc = "merge"
    /\ ret.branch = "insert"
    /\ EndLiteralLine(destFile) >= 2

\* C5 (as claimed): on the anchor path the inserted fragment is immediately
\* followed by the end-literal line.
C5_FragmentTouchesEndLiteral ==
    (pc = "merge" /\ ret.branch = "insert" /\ arg # <<>>) =>
        \E p \in 0 .. Len(destFile) - 1 :
            /\ lines = SubSeq(destFile, 1, p) \o arg \o SubSeq(destFile, p + 1, Len(destFile))
            /\ Strip(destFile[p + 1]) = AnchorEnd("config")

\* C5 (amended): on the anchor path, the end literal at line L >= 2, the last
\* line of the inserted fragment is immediately followed by the line that
\* preceded the end literal, and that line by the end-literal line.
C5_OneLineBeforeEndLiteral ==
    (InsertedAtAnchor /\ arg # <<>>) =>
        LET L == EndLiteralLine(destFile)
            n == Len(arg)
        IN  /\ lines[L - 2 + n] = arg[n]
            /\ lines[L - 1 + n] = destFile[L - 1]
            /\ lines[L + n] = destFile[L]
            /\ Strip(lines[L + n]) = AnchorEnd("config")

C5_Witness ==
    /\ InsertedAtAnchor
    /\ Len(arg) = 2
    /\ EndLiteralLine(destFile) = 3
    /\ Strip(lines[5]) = AnchorEnd("config")

\* C6: on the anchor path, the end literal at line L >= 2 and the fragment of
\* n lines, the fragment is at lines L-1 .. L-2+n, the lines before L-1 stay
\* and the lines from L-1 on move down by n; in the scenario document a
\* 1-line fragment is at line 9 and the old line 9 at line 10.
C6_AnchorInsertPosition ==
    /\ InsertedAtAnchor =>
         LET L == EndLiteralLine(destFile)
             n == Len(arg)
         IN  /\ Len(lines) = Len(destFile) + n
             /\ SubSeq(lines, 1, L - 2) = SubSeq(destFile, 1, L - 2)
             /\ SubSeq(lines, L - 1, L - 2 + n) = arg
             /\ \A j \in L - 1 .. Len(destFile) : lines[j + n] = destFile[j]
    /\ (pc = "merge" /\ destFile = ScenarioDoc /\ Len(arg) = 1) =>
         /\ ret.branch = "insert"
         /\ lines[9] = arg[1]
         /\ lines[10] = ScenarioDoc[9]
         /\ lines[11] = Ln(AnchorEnd("config"))

C6_Witness ==
    /\ InsertedAtAnchor
    /\ destFile = ScenarioDoc
    /\ Len(arg) = 1
    /\ lines[9] = arg[1]

\* C7 (as claimed): after a merge that replaced the marker-delimited section
\* of a kind, the list holds exactly one start marker line and one end marker
\* line of that kind, the start marker first.
C7_MarkersPreserved ==
    \A k \in Kinds :
        (JustMerged(k) /\ branch[k] = "replace") =>
            /\ Cardinality(Positions(lines, StartMarker(k))) = 1
            /\ Cardinality(Positions(lines, EndMarker(k))) = 1
            /\ HasMarkerPair(lines, k)

\* C8 (as claimed): extracting a kind from the list right after that kind's
\* fragment was merged into it returns the fragment.
C8_RoundTrip ==
    \A k \in Kinds :
        (JustMerged(k) /\ branch[k] # "none") =>
            GetUserBoard(k, lines) = GetUserBoard(k, srcFile)

\* C9 (as claimed): a second add_board run, the source unchanged, against a
\* destination that had the three marker pairs before the first run leaves
\* the destination file as the first run saved it.
C9_Idempotent ==
    (/\ second
     /\ pc \in {"done", "failed"}
     /\ Len(saved) >= 2
     /\ \A k \in Kinds : HasMarkerPair(saved[1], k))
        => destFile = saved[2]

\* C10 (as claimed): when the list being merged holds the marker pair of the
\* kind, the merge replaces the lines from the start marker to the end marker
\* by the fragment; the anchors are used only when the marker lookup raised.
C10_ReplaceMarkerRange ==
    \A k \in Kinds :
        JustMerged(k) =>
            /\ HasMarkerPair(before, k) =>
                 /\ branch[k] = "replace"
                 /\ lines = SubSeq(before, 1, FirstStart(before, k))
                            \o GetUserBoard(k, srcFile)
                            \o SubSeq(before, FirstEndAfterStart(before, k) + 2, Len(before))
            /\ branch[k] = "insert" =>
                 GetSectionPlaceUserBoard(k, destFile).err = "ValueError"

----------------------------------------------------------------------------
(* C11 .. C17 *)

\* the kinds whose `# Process` block comes before the block of kind k
Earlier(k) ==
    CASE k = "config"  -> {}
      [] k = "default" -> {"config"}
      [] k = "options" -> {"config", "default"}

\* the `# Process` block of kind k raised and the exception left add_board
FailedAt(k) ==
    /\ pc = "failed"
    /\ destExists
    /\ branch[k] = "none"
    /\ \A j \in Earlier(k) : branch[j] # "none"

\* text t starts with prefix p, for the texts of the model's documents
TextStartsWith(t, p) ==
    \/ t = p
    \/ /\ p = AnchorStart("default")
       /\ t \in {OldText("default"), NewText("default")}

\* doc has a line that starts with the start anchor of kind k and, after it,
\* a line whose trimmed content is the end literal
AnchorsFound(doc, k) ==
    \E a \in 1 .. Len(doc) :
        /\ TextStartsWith(Strip(doc[a]), AnchorStart(k))
        /\ \E z \in Positions(doc, AnchorEnd(k)) : z > a

\* C11 (as claimed): when the marker lookup of a kind raised and the list has
\* no start anchor line followed by an end literal line, the block of that
\* kind raises ValueError, the list is left as it was and add_board ends.
C11_AnchorFailureIsFatal ==
    \A k \in Kinds :
        (/\ JustMerged(k) \/ FailedAt(k)
         /\ srcExists
         /\ GetSectionPlaceUserBoard(k, destFile).err = "ValueError"
         /\ ~AnchorsFound(before, k))
            => /\ pc = "failed"
               /\ err = "ValueError"
               /\ lines = before

\* C12: the destination file is written only by the save that follows the
\* CONFIG, DEFAULT and OPTIONS merges, all three successful and in that order;
\* a run that fails skips the remaining merges and leaves the file on disk as
\* it was before the call.
C12_NoPartialCommit ==
    [][/\ (destFile' # destFile \/ saved' # saved)
            => /\ pc = "save" /\ pc' = "done"
               /\ err = ""
               /\ \A k \in Kinds : branch[k] # "none"
               /\ destFile' = lines
               /\ saved' = Append(saved, lines)
       /\ \A k \in Kinds :
            pc = k => /\ \A j \in Earlier(k) : branch[j] # "none"
                      /\ \A j \in Kinds \ Earlier(k) : branch[j] = "none"
       /\ pc' = "failed"
            => /\ destFile' = saved[Len(saved)]
               /\ saved' = saved
               /\ lines' = lines
       /\ pc = "failed"
            => /\ pc' = "load"
               /\ destFile' = destFile]_vars

\* the CONFIG block changed the list, the DEFAULT block raised, and the file
\* on disk is the one the call started from
C12_Witness ==
    /\ pc = "failed"
    /\ err = "ValueError"
    /\ branch["config"] # "none"
    /\ branch["default"] = "none"
    /\ lines # destFile
    /\ destFile = saved[Len(saved)]

\* C15 (as claimed): the range the DEFAULT merge, and likewise the OPTIONS
\* merge, replaces is the range between that kind's start and end marker in
\* the list as the preceding merges of the same run left it.
C15_PlaceFromMergedList ==
    \A k \in {"default", "options"} :
        (JustMerged(k) /\ branch[k] = "replace")
            => /\ GetSectionPlaceUserBoard(k, before).err = ""
               /\ GetSectionPlaceUserBoard(k, before).s
                    = GetSectionPlaceUserBoard(k, destFile).s
               /\ GetSectionPlaceUserBoard(k, before).e
                    = GetSectionPlaceUserBoard(k, destFile).e

\* C16 (as claimed): on a document where _get_section_place returns (s, e),
\* _get_section_lines with the markers included returns the lines s .. e.
C16_ExtractAgreesWithFind ==
    (/\ pc = "_get_section_lines"
     /\ GetSectionPlaceUserBoard("config", destFile).err = "")
        => ret.value = SubSeq(destFile,
                              GetSectionPlaceUserBoard("config", destFile).s + 1,
                              GetSectionPlaceUserBoard("config", destFile).e + 1)

\* doc holds exactly one start and one end marker line of every kind, the
\* start marker before the end marker
WellFormedPairs(doc) ==
    \A k \in Kinds :
        /\ Cardinality(Positions(doc, StartMarker(k))) = 1
        /\ Cardinality(Positions(doc, EndMarker(k))) = 1
        /\ HasMarkerPair(doc, k)

\* doc has no marker line of any kind
NoMarkerLines(doc) ==
    \A k \in Kinds : /\ Positions(doc, StartMarker(k)) = {}
                     /\ Positions(doc, EndMarker(k)) = {}

\* C17 (as claimed): after one successful run on a destination without marker
\* lines that has the three anchor pairs, from a source with the three
\* well-formed marker pairs, the saved file holds the three marker pairs, the
\* next run takes the replace branch for every kind and every file saved from
\* then on holds each fragment once.
C17_AnchorPathConverges ==
    (/\ Len(saved) >= 2
     /\ NoMarkerLines(saved[1])
     /\ \A k \in Kinds : AnchorsFound(saved[1], k)
     /\ srcExists
     /\ WellFormedPairs(srcFile))
        => /\ \A k \in Kinds : HasMarkerPair(saved[2], k)
           /\ second => \A k \in Kinds : branch[k] # "insert"
           /\ \A i \in 2 .. Len(saved) : WellFormedPairs(saved[i])

\* board_add_to_kconfig has ended for a board whose directory and arch/chip
\* were found
BoardHandled ==
    /\ pc = "failed"
    /\ err # "ValueError"
    /\ ret.arh_chip # None

\* b upper-cased, every `-` replaced by `_`
RECURSIVE UpperName(_)
UpperName(b) ==
    IF b = <<>> THEN ""
    ELSE (CASE Head(b) = "m" -> "M"
            [] Head(b) = "y" -> "Y"
            [] Head(b) = "-" -> "_") \o UpperName(Tail(b))

Flag(b) == "ARCH_BOARD_" \o UpperName(b)

RECURSIVE Spaces(_)
Spaces(n) == IF n <= 0 THEN "" ELSE " " \o Spaces(n - 1)

\* TAB + default "<board_name>"
ConfigBase(b) == "\tdefault \"" \o Str(b) \o "\""

\* the CONFIG line of the claim: base text, padding, ` if <FLAG>`
ConfigLine(b) ==
    ConfigBase(b)
        \o (IF Len(ConfigBase(b)) < 37 THEN Spaces(37 - Len(ConfigBase(b))) ELSE " ")
        \o " if " \o Flag(b)

\* the line as the file holds it: the leading TAB, then the trimmed content
Raw(line) == IF line.indent = 0 THEN line.text ELSE "\t" \o line.text

\* C13 (as claimed): for a board name, the CONFIG line merged into the
\* destination is TAB + default "<board_name>", then spaces up to column 37
\* (one space when the base text is 37 characters or longer), then ` if <FLAG>`.
C13_ConfigLinePadding ==
    BoardHandled
        => \E i \in 1 .. Len(destFile) : Raw(destFile[i]) = ConfigLine(arg.board_name)

\* the OPTIONS fragment of the claim for board b and arch/chip ac
OptionsFragment(b, ac) ==
    <<"if " \o Flag(b),
      "source \"boards/" \o ac \o "/" \o Str(b) \o "/Kconfig\"",
      "endif">>

\* C14 (as claimed): for board b and arch/chip a/c the OPTIONS fragment merged
\* into the destination is the three lines `if ARCH_BOARD_<B>`,
\* `source "boards/a/c/b/Kconfig"`, `endif`, B being b upper-cased with `_`
\* for `-`.
C14_OptionsFragment ==
    BoardHandled
        => \E i \in 1 .. Len(destFile) - 2 :
               \A j \in 1 .. 3 :
                   Strip(destFile[i + j - 1])
                       = OptionsFragment(arg.board_name, ret.arh_chip[1])[j]

====
